---- MODULE Spec2Model ----
(***************************************************************************)
(* Order placement with multi-project credit allocation                    *)
(* (api/order/service.py, api/core/crud.py, api/database.py).              *)
(*                                                                         *)
(* Money is counted in whole units of the smallest amount (the code uses   *)
(* exact Decimal arithmetic on values with two places, which is integer    *)
(* arithmetic on cents).  Each order-placement attempt is one request with *)
(* its own database session; the steps of an attempt are the awaits of     *)
(* CRUDOrder.create.                                                       *)
(***************************************************************************)
EXTENDS Integers, Sequences, FiniteSets, TLC

(***************************************************************************)
(* Bounds of the model                                                     *)
(***************************************************************************)
MaxCredit == 2
MaxLimits == 2
MaxQty == 1
MaxLines == 2
LimitAmount == 1

Projects == {1, 2}
Products == {1, 2}
Attempts == {1, 2}
UserId == 1
NoProduct == 0

VARIABLES
    credits,          \* durable user_credit rows
    limits,           \* durable user_product_limit rows
    db,               \* durable order_order / order_line / user_transaction rows
    pc,               \* position of each attempt in CRUDOrder.create
    cart,             \* the request payload of each attempt (order.lines)
    project_credits,  \* the attempt's ranked working list of ProjectCredit
    session,          \* rows pending in the attempt's database session
    db_order,         \* the attempt's in-memory Order object
    order_lines,      \* the attempt's local list order_lines
    transactions,     \* the attempt's local list transactions
    line_no,          \* number of cart lines the for loop has completed
    granted,          \* history: the user_credit rows before any attempt
    user,             \* request.state.user of the requests
    catalogue,        \* durable catalogue_product rows
    request,          \* what each request carries: credentials, endpoint, path id
    reread,           \* results of further calls of get_user_project_credits
    tx,               \* the database transactions of each request's session
    response,         \* the HTTP response each request was answered with
    manager,          \* the ConnectionManager of the ticket router
    handler,          \* the add_message task of each websocket, and its peer
    export            \* an export_export row and the task processing it

vars == <<credits, limits, db, pc, cart, project_credits,
          session, db_order, order_lines, transactions, line_no, granted,
          user, catalogue, request, reread, tx, response,
          manager, handler, export>>

(***************************************************************************)
(* Helpers                                                                 *)
(***************************************************************************)
Min(a, b) == IF a <= b THEN a ELSE b

RECURSIVE SumAmount(_)
SumAmount(s) == IF s = <<>> THEN 0 ELSE Head(s).amount + SumAmount(Tail(s))

Range(s) == {s[i] : i \in DOMAIN s}

Perms(S) ==
    {f \in [1..Cardinality(S) -> S] : \A i, j \in DOMAIN f : f[i] = f[j] => i = j}

RECURSIVE SeqsUpTo(_, _)
SeqsUpTo(S, n) ==
    IF n = 0 THEN {<<>>}
    ELSE LET shorter == SeqsUpTo(S, n - 1)
         IN  shorter \cup {Append(s, x) : s \in {t \in shorter : Len(t) = n - 1}, x \in S}

(***************************************************************************)
(* Inputs                                                                  *)
(***************************************************************************)
\* The catalogue: the price of each product.
CataloguePrice == [p \in Products |-> p]

\* The catalogue_product rows with every product active.
Catalogue == [p \in Products |-> [price |-> CataloguePrice[p], is_active |-> TRUE]]

\* A request line carries the product as the catalogue serves it and any
\* integer quantity.
Quantities == (-1)..MaxQty
Lines ==
    {[product |-> [id |-> p, price |-> CataloguePrice[p]], quantity |-> q]
        : p \in Products, q \in Quantities}
Carts == SeqsUpTo(Lines, MaxLines)
SingleLineCarts == {c \in SeqsUpTo(Lines, 1) : Len(c) = 1 /\ c[1].quantity > 0}

CreditTables ==
    {{[id |-> 10 + p, user_id |-> UserId, project_id |-> p, amount |-> amt[p]]
        : p \in Projects} : amt \in [Projects -> 0..MaxCredit]}

LimitTables ==
    {{[project_id |-> k[1], product_id |-> k[2], amount |-> LimitAmount,
       absolute_limit |-> flag[k]] : k \in keys}
        : keys \in {K \in SUBSET (Projects \X Products) : Cardinality(K) <= MaxLimits},
          flag \in [Projects \X Products -> BOOLEAN]}

EmptySession == [order |-> FALSE, lines |-> <<>>, txns |-> <<>>]
EmptyDb == [orders |-> <<>>, lines |-> <<>>, txns |-> <<>>]
NoOrder == [id |-> 0]


(***************************************************************************)
(* Credit Resolver: CRUDOrder.get_user_project_credits                     *)
(***************************************************************************)
\* The product ids of the cart, as create collects them.
ProductIds(c) == {c[i].product.id : i \in DOMAIN c}

\* The rows of the query: Credit joined to Project, outer-joined to the
\* ProductLimit rows of the same project for the cart's products, each row
\* turned into a ProjectCredit.
JoinRows(user_id, product_ids) ==
    UNION {
        LET matching == {l \in limits : /\ l.project_id = c.project_id
                                        /\ l.product_id \in product_ids}
        IN  IF matching = {}
            THEN {[project_id |-> c.project_id, available_amount |-> c.amount,
                   absolute_limit |-> FALSE, product_id |-> NoProduct]}
            ELSE {[project_id |-> c.project_id, available_amount |-> c.amount,
                   absolute_limit |-> l.absolute_limit, product_id |-> l.product_id]
                    : l \in matching}
        : c \in {r \in credits : r.user_id = user_id}}

\* Variant: the key without the absolute_limit flag.
KeyLessAmountOnly(x, y) == x.available_amount < y.available_amount

\* key=lambda x: (x.absolute_limit, x.available_amount), compared as tuples.
KeyLess(x, y) ==
    \/ (~x.absolute_limit) /\ y.absolute_limit
    \/ /\ x.absolute_limit = y.absolute_limit
       /\ x.available_amount < y.available_amount

\* sorted(..., reverse=True): a stable sort, larger keys first, rows with equal
\* keys kept in the order the query returned them.
InsertReverse(t, x) ==
    LET k == Cardinality({i \in DOMAIN t : ~KeyLess(t[i], x)})
    IN  SubSeq(t, 1, k) \o <<x>> \o SubSeq(t, k + 1, Len(t))

RECURSIVE SortedReverse(_)
SortedReverse(s) ==
    IF s = <<>> THEN <<>>
    ELSE InsertReverse(SortedReverse(SubSeq(s, 1, Len(s) - 1)), s[Len(s)])

(***************************************************************************)
(* Allocation Engine: the body of the for loop of CRUDOrder.create         *)
(***************************************************************************)
AmountNeeded(line) == line.product.price * line.quantity

\* Variants: the draw without the cap of the balance, and the draw of the
\* whole balance.
DrawUncapped(available_amount, uncovered) == uncovered
DrawWholeBalance(available_amount, uncovered) == available_amount

\* min(credit.available_amount, amount_needed - amount_covered)
Draw(available_amount, uncovered) == Min(available_amount, uncovered)

\* Variant: a zero draw is booked too.
ChargeableOrZero(available) == available >= 0

\* if available > 0
Chargeable(available) == available > 0

\* Variants: the first loop takes the unscoped credits, and the first loop
\* compares with the product of the first cart line.
UnscopedFirst(lines, n) == NoProduct
FirstLineScope(lines, n) == lines[1].product.id

\* Variant: the second loop finds no credit to fall back on.
NoFallback(lines, n) == -1

\* The product_id a credit must carry to be used by the first and by the
\* second loop over project_credits.
FirstPassScope(lines, n) == lines[n].product.id
SecondPassScope(lines, n) == NoProduct

\* One loop over project_credits, from position i on.  st carries the working
\* list, the transactions appended so far and amount_covered.  A transaction
\* records, beside the columns the code sets, the cart line and the position
\* of the credit it was drawn from and the values the draw was computed from.
RECURSIVE FundPass(_, _, _, _, _, _)
FundPass(st, order_id, n, needed, scope, i) ==
    IF i > Len(st.credits) \/ st.covered >= needed THEN st
    ELSE LET credit == st.credits[i]
             available == Draw(credit.available_amount, needed - st.covered)
         IN  IF credit.product_id = scope /\ Chargeable(available)
             THEN FundPass(
                    [credits |-> [st.credits EXCEPT
                                    ![i].available_amount = @ - available],
                     txns |-> Append(st.txns,
                                [credit_id |-> credit.project_id,
                                 order_id |-> order_id,
                                 amount |-> available,
                                 line |-> n, src |-> i,
                                 avail |-> credit.available_amount,
                                 uncovered |-> needed - st.covered]),
                     covered |-> st.covered + available],
                    order_id, n, needed, scope, i + 1)
             ELSE FundPass(st, order_id, n, needed, scope, i + 1)

\* Variant: the working list is ranked again before each cart line.
Reranked(pcs) == SortedReverse(pcs)

\* "for credit in project_credits": every cart line iterates the one list
\* get_user_project_credits returned, as the lines before it left it.
CarriedForward(pcs) == pcs

\* Both loops for one cart line: the second runs if the first left a shortfall.
FundLineResult(pcs, txs, order_id, lines, n) ==
    LET needed == AmountNeeded(lines[n])
        first == FundPass([credits |-> pcs, txns |-> txs, covered |-> 0],
                          order_id, n, needed, FirstPassScope(lines, n), 1)
    IN  IF first.covered < needed
        THEN FundPass(first, order_id, n, needed, SecondPassScope(lines, n), 1)
        ELSE first

(***************************************************************************)
(* The database session                                                    *)
(***************************************************************************)
\* Variant: the order row is committed where it is flushed.
FlushCommits(durable, order) == [durable EXCEPT !.orders = Append(@, order)]

\* flush(): the pending rows are sent inside the open transaction; the
\* durable rows do not change.
Flush(durable, order) == durable

\* rollback(): the pending rows are dropped.
Rollback(a) == [session EXCEPT ![a] = EmptySession]

\* The session's transactions are numbered from 0.  ended is the number of
\* transactions the session has ended by commit() or rollback(), which is
\* the number of the transaction its next statement runs in; read_in and
\* written_in are the numbers of the transactions in which the resolver's
\* query ran and in which the order's rows were committed.
NoTx == [ended |-> 0, read_in |-> -1, written_in |-> -1]

\* commit() and rollback() end the session's transaction.
Ended(t) == [t EXCEPT !.ended = @ + 1]

\* Variant: flush() ends the transaction as commit() does.
AfterFlushCommitted(t) == [t EXCEPT !.ended = @ + 1]

\* flush() sends the pending rows inside the open transaction.
AfterFlush(t) == t

(***************************************************************************)
(* The router: api/order/router.py, api/exceptions.py                      *)
(***************************************************************************)
NoResponse == [status_code |-> 0, detail |-> ""]
Ok == [status_code |-> 200, detail |-> ""]

\* The exception classes and the response FastAPI makes of each.
DetailedHTTPException == [status_code |-> 500, detail |-> "Server Error"]
InsufficientCredit ==
    [status_code |-> 400, detail |-> "Insufficient credit available for purchase"]

\* add_order: "except Exception" catches whatever create raises, the
\* HTTPException subclasses included, and raises DetailedHTTPException().
AddOrderRaises(exception) == DetailedHTTPException

\* The user row of a superuser, as get_current_user loads it.
Superuser ==
    [id |-> UserId, is_active |-> TRUE, is_superuser |-> TRUE, groups |-> {}]

\* No order id in the path, and no body other than the cart.
NoOrderId == 0
NoBody == [status |-> "", guest_email |-> ""]

\* POST /orders/ with the bearer token of a user.
AddOrderRequest(u) ==
    [credentials |-> [kind |-> "token", user |-> u],
     endpoint |-> "add_order", order_id |-> NoOrderId, body |-> NoBody]

(***************************************************************************)
(* The ticket and export services at rest                                  *)
(***************************************************************************)
MaxSockets == 2

Tickets == {1, 2}
Sockets == 1..MaxSockets
NoTask == 0

\* ConnectionManager.__init__: no connection, the lock free.
NewManager == [active_connections |-> [t \in {} |-> <<>>], lock |-> NoTask]

\* A websocket nobody has opened yet.
IdleHandler ==
    [pc |-> "idle", ticket_id |-> 0, peer |-> "open", i |-> 0,
     dead_connections |-> <<>>]

\* No export requested; the columns of a row that does not exist yet.
NoRow == [status |-> "", file |-> "", started_at |-> 0, finished_at |-> 0]
NoSchema == [model_name |-> "", file_format |-> "", operator |-> ""]
NoExport ==
    [pc |-> "none", schema |-> NoSchema, row |-> NoRow, export_obj |-> NoRow,
     raised |-> "", now |-> 1]

AtRest ==
    /\ manager = NewManager
    /\ handler = [s \in Sockets |-> IdleHandler]
    /\ export = NoExport

(***************************************************************************)
(* Initial states: the ledger as administered outside the order core, no   *)
(* order placed yet, every attempt still to arrive.                        *)
(***************************************************************************)
InitWith(limit_tables, users, catalogues) ==
    /\ credits \in CreditTables
    /\ limits \in limit_tables
    /\ db = EmptyDb
    /\ pc = [a \in Attempts |-> "idle"]
    /\ cart = [a \in Attempts |-> <<>>]
    /\ project_credits = [a \in Attempts |-> <<>>]
    /\ session = [a \in Attempts |-> EmptySession]
    /\ db_order = [a \in Attempts |-> NoOrder]
    /\ order_lines = [a \in Attempts |-> <<>>]
    /\ transactions = [a \in Attempts |-> <<>>]
    /\ line_no = [a \in Attempts |-> 0]
    /\ granted = credits
    /\ user \in users
    /\ catalogue \in catalogues
    /\ request = [a \in Attempts |-> AddOrderRequest(user)]
    /\ reread = [a \in Attempts |-> <<>>]
    /\ tx = [a \in Attempts |-> NoTx]
    /\ response = [a \in Attempts |-> NoResponse]
    /\ AtRest

Init == InitWith(LimitTables, {Superuser}, {Catalogue})

(***************************************************************************)
(* CRUDOrder.create, one action per await                                  *)
(***************************************************************************)
\* The request arrives; _create_add_log adds an AdminLog row and commits it
\* (or rolls back and swallows the exception): no pending row, and no row of
\* the credit and order tables, is touched.
Begin(a) ==
    /\ pc[a] = "idle"
    /\ session' = [session EXCEPT ![a] = EmptySession]
    /\ pc' = [pc EXCEPT ![a] = "logged"]
    /\ tx' = [tx EXCEPT ![a] = Ended(@)]
    /\ UNCHANGED <<manager, handler, export>>
    /\ UNCHANGED <<credits, limits, db, cart, project_credits, db_order,
                   order_lines, transactions, line_no, granted,
                   user, catalogue, request, reread, response>>

\* The product ids of the request's cart are collected and
\* get_user_project_credits runs its query: the rows come in an order the
\* database chooses and are sorted into the ranked working list.
Resolve(a, carts) ==
    /\ pc[a] = "logged"
    /\ \E c \in carts :
         /\ cart' = [cart EXCEPT ![a] = c]
         /\ \E ranked \in {SortedReverse(rows) :
                            rows \in Perms(JoinRows(UserId, ProductIds(c)))} :
              project_credits' = [project_credits EXCEPT ![a] = ranked]
    /\ pc' = [pc EXCEPT ![a] = "resolved"]
    /\ tx' = [tx EXCEPT ![a].read_in = tx[a].ended]
    /\ UNCHANGED <<manager, handler, export>>
    /\ UNCHANGED <<credits, limits, db, session, db_order,
                   order_lines, transactions, line_no, granted,
                   user, catalogue, request, reread, response>>

\* The Order object is created in status INIT with zero totals, added to the
\* session and flushed.
AddOrder(a) ==
    /\ pc[a] = "resolved"
    /\ LET order == [id |-> a, user_id |-> UserId, total_excl_tax |-> 0,
                     total_incl_tax |-> 0, status |-> "INIT"]
       IN  /\ db_order' = [db_order EXCEPT ![a] = order]
           /\ db' = Flush(db, order)
    /\ session' = [session EXCEPT ![a].order = TRUE]
    /\ pc' = [pc EXCEPT ![a] = "funding"]
    /\ tx' = [tx EXCEPT ![a] = AfterFlush(@)]
    /\ UNCHANGED <<manager, handler, export>>
    /\ UNCHANGED <<credits, limits, cart, project_credits,
                   order_lines, transactions, line_no, granted,
                   user, catalogue, request, reread, response>>

\* One iteration of "for line in order.lines": both loops over the working
\* list, then either rollback and InsufficientCredit, or the OrderLine and
\* the order totals.
FundLine(a) ==
    /\ pc[a] = "funding"
    /\ line_no[a] < Len(cart[a])
    /\ LET n == line_no[a] + 1
           line == cart[a][n]
           amount_needed == AmountNeeded(line)
           res == FundLineResult(CarriedForward(project_credits[a]),
                                 transactions[a], db_order[a].id, cart[a], n)
       IN  /\ project_credits' = [project_credits EXCEPT ![a] = res.credits]
           /\ transactions' = [transactions EXCEPT ![a] = res.txns]
           /\ IF res.covered < amount_needed
              THEN /\ session' = Rollback(a)
                   /\ pc' = [pc EXCEPT ![a] = "insufficient_credit"]
                   /\ response' = [response EXCEPT
                        ![a] = AddOrderRaises(InsufficientCredit)]
                   /\ tx' = [tx EXCEPT ![a] = Ended(@)]
                   /\ UNCHANGED <<db_order, order_lines, line_no>>
              ELSE /\ order_lines' = [order_lines EXCEPT ![a] = Append(@,
                        [order_id |-> db_order[a].id,
                         n |-> n,
                         product_id |-> line.product.id,
                         quantity |-> line.quantity,
                         unit_price_incl_tax |-> line.product.price,
                         line_price_incl_tax |-> amount_needed])]
                   /\ db_order' = [db_order EXCEPT
                        ![a].total_excl_tax = @ + amount_needed,
                        ![a].total_incl_tax = @ + amount_needed]
                   /\ line_no' = [line_no EXCEPT ![a] = n]
                   /\ UNCHANGED <<session, pc, response, tx>>
    /\ UNCHANGED <<manager, handler, export>>
    /\ UNCHANGED <<credits, limits, db, cart, granted, user, catalogue, request, reread>>

\* After the last line: add_all(order_lines), add_all(transactions), commit;
\* the refresh reads the committed order back and add_order returns it.
Commit(a) ==
    /\ pc[a] = "funding"
    /\ line_no[a] = Len(cart[a])
    /\ session' = [session EXCEPT ![a] = EmptySession]
    /\ db' = [orders |-> Append(db.orders, db_order[a]),
              lines |-> db.lines \o order_lines[a],
              txns |-> db.txns \o transactions[a]]
    /\ pc' = [pc EXCEPT ![a] = "done"]
    /\ tx' = [tx EXCEPT ![a] = Ended([@ EXCEPT !.written_in = tx[a].ended])]
    /\ response' = [response EXCEPT ![a] = Ok]
    /\ UNCHANGED <<manager, handler, export>>
    /\ UNCHANGED <<credits, limits, cart, project_credits,
                   db_order, order_lines, transactions, line_no, granted,
                   user, catalogue, request, reread>>

\* The query, the flush or the commit raises (storage failure, constraint
\* violation): the exception leaves create, add_order answers it and get_db
\* rolls the session back.
StorageFailure(a) ==
    /\ \/ pc[a] \in {"logged", "resolved"}
       \/ pc[a] = "funding" /\ line_no[a] = Len(cart[a])
    /\ session' = Rollback(a)
    /\ pc' = [pc EXCEPT ![a] = "storage_failure"]
    /\ tx' = [tx EXCEPT ![a] = Ended(@)]
    /\ response' = [response EXCEPT ![a] = AddOrderRaises(DetailedHTTPException)]
    /\ UNCHANGED <<manager, handler, export>>
    /\ UNCHANGED <<credits, limits, db, cart, project_credits,
                   db_order, order_lines, transactions, line_no, granted,
                   user, catalogue, request, reread>>

Step(a, carts) ==
    \/ Begin(a)
    \/ Resolve(a, carts)
    \/ AddOrder(a)
    \/ FundLine(a)
    \/ Commit(a)
    \/ StorageFailure(a)

\* One order-placement attempt.
Next == Step(1, Carts)

Spec == Init /\ [][Next]_vars

\* Two concurrent order-placement attempts of the user, one line each.
NextConc == \E a \in Attempts : Step(a, SingleLineCarts)

SpecConc == Init /\ [][NextConc]_vars

(***************************************************************************)
(* Vocabulary of the properties                                            *)
(***************************************************************************)
\* The working ProjectCredit a transaction of attempt a was drawn from.
Source(a, t) == project_credits[a][t.src]

\* Positions in transactions[a] of the charges of cart line n made by the
\* loop over the scoped (pass 1) or the unscoped (pass 2) credits.
PassCharges(a, n, pass) ==
    {k \in DOMAIN transactions[a] :
        /\ transactions[a][k].line = n
        /\ (Source(a, transactions[a][k]).product_id = NoProduct) = (pass = 2)}

LineCharges(a, n) == {k \in DOMAIN transactions[a] : transactions[a][k].line = n}

\* Amount drawn by attempt a from position i of its working list.
RECURSIVE Drawn(_, _, _)
Drawn(a, i, k) ==
    IF k = 0 THEN 0
    ELSE Drawn(a, i, k - 1)
         + (IF transactions[a][k].src = i THEN transactions[a][k].amount ELSE 0)

\* The amount of the user's credit row in a project, in a table of rows.
AmountIn(table, project_id) ==
    (CHOOSE c \in table : c.project_id = project_id).amount

\* Sum of the amounts of the transactions of s booked on a credit reference.
RECURSIVE SumOnCredit(_, _)
SumOnCredit(s, credit_id) ==
    IF s = <<>> THEN 0
    ELSE (IF Head(s).credit_id = credit_id THEN Head(s).amount ELSE 0)
         + SumOnCredit(Tail(s), credit_id)

\* Sum of the amounts of the transactions of s emitted for line n of an order.
RECURSIVE SumOnLine(_, _, _)
SumOnLine(s, order_id, n) ==
    IF s = <<>> THEN 0
    ELSE (IF Head(s).order_id = order_id /\ Head(s).line = n
          THEN Head(s).amount ELSE 0)
         + SumOnLine(Tail(s), order_id, n)

Placed(a) == pc[a] = "done"

(***************************************************************************)
(* C1  Coverage: for every placed order and every line of it, the amounts  *)
(* of the transactions emitted for the line add up to the line total,      *)
(* unit price times quantity.                                              *)
(***************************************************************************)
CoverageInvariant ==
    \A i \in DOMAIN db.lines :
        LET l == db.lines[i]
        IN  SumOnLine(db.txns, l.order_id, l.n) = l.unit_price_incl_tax * l.quantity

(***************************************************************************)
(* C2  Non-negativity: at every step of an attempt, successful or failing, *)
(* every working available_amount is >= 0, and the total an attempt has    *)
(* drawn from one source never exceeds the amount it was resolved with.    *)
(***************************************************************************)
NonNegativity ==
    \A a \in Attempts : \A i \in DOMAIN project_credits[a] :
        /\ project_credits[a][i].available_amount >= 0
        /\ Drawn(a, i, Len(transactions[a]))
             <= AmountIn(granted, project_credits[a][i].project_id)

\* A failing attempt that had drained a source before it failed.
NonNegativityWitness ==
    \E a \in Attempts :
        /\ pc[a] = "insufficient_credit"
        /\ \E i \in DOMAIN project_credits[a] :
             /\ project_credits[a][i].available_amount = 0
             /\ Drawn(a, i, Len(transactions[a])) > 0

(***************************************************************************)
(* C3  All-or-nothing: an attempt that has not completed successfully has  *)
(* no durable order row, order line or transaction.                        *)
(***************************************************************************)
AllOrNothing ==
    \A a \in Attempts :
        ~Placed(a) =>
            /\ \A i \in DOMAIN db.orders : db.orders[i].id # a
            /\ \A i \in DOMAIN db.lines : db.lines[i].order_id # a
            /\ \A i \in DOMAIN db.txns : db.txns[i].order_id # a

\* An attempt failed on a later line after an earlier line was fully funded.
AllOrNothingWitness ==
    \E a \in Attempts :
        /\ pc[a] = "insufficient_credit"
        /\ line_no[a] >= 1
        /\ \E k \in DOMAIN transactions[a] : transactions[a][k].line = 1

(***************************************************************************)
(* C4  Durable decrement: the step that commits an attempt leaves every    *)
(* credit row at its balance before the step minus the amounts the         *)
(* attempt's transactions drew from it.                                    *)
(***************************************************************************)
DurableDecrement ==
    [][\A a \in Attempts :
          (pc[a] = "funding" /\ pc'[a] = "done") =>
              \A c \in credits :
                  AmountIn(credits', c.project_id)
                      = c.amount - SumOnCredit(transactions[a], c.project_id)]_vars

(***************************************************************************)
(* C5  No concurrent overdraw: the committed transaction amounts drawn on  *)
(* one credit row never add up to more than the balance the row had        *)
(* before the attempts started.                                            *)
(***************************************************************************)
NoConcurrentOverdraw ==
    \A c \in granted : SumOnCredit(db.txns, c.project_id) <= c.amount

(***************************************************************************)
(* C6  Ranking: in the list get_user_project_credits returns, every        *)
(* absolute-limit source precedes every other source and, within each of   *)
(* the two groups, available_amount is non-increasing; and a line whose    *)
(* product has an absolute-limit scoped source with enough balance for the *)
(* whole line is funded from absolute-limit sources of that product only.  *)
(***************************************************************************)
Ranked(pcs) ==
    \A i, j \in DOMAIN pcs :
        i < j =>
            /\ pcs[j].absolute_limit => pcs[i].absolute_limit
            /\ pcs[i].absolute_limit = pcs[j].absolute_limit
                 => pcs[i].available_amount >= pcs[j].available_amount

RankingInvariant ==
    /\ [](\A a \in Attempts : pc[a] = "resolved" => Ranked(project_credits[a]))
    /\ [][\A a \in Attempts :
            (pc[a] = "funding" /\ transactions'[a] # transactions[a]) =>
                LET n == line_no[a] + 1
                    product == cart[a][n].product.id
                    covering == {i \in DOMAIN project_credits[a] :
                        /\ project_credits[a][i].product_id = product
                        /\ project_credits[a][i].absolute_limit
                        /\ project_credits[a][i].available_amount
                             >= AmountNeeded(cart[a][n])}
                IN  covering # {} =>
                        \A k \in DOMAIN transactions'[a] :
                            k > Len(transactions[a]) =>
                                LET src == project_credits[a][transactions'[a][k].src]
                                IN  src.absolute_limit /\ src.product_id = product]_vars

\* The spec's example: an absolute-limit scoped source paid a whole line
\* although a scoped source without the flag held a larger amount.
RankingWitness ==
    \E a \in Attempts :
        /\ line_no[a] = 1
        /\ Len(transactions[a]) = 1
        /\ LET t == transactions[a][1]
           IN  /\ Source(a, t).absolute_limit
               /\ Source(a, t).product_id = cart[a][1].product.id
               /\ \E j \in DOMAIN project_credits[a] :
                    /\ project_credits[a][j].product_id = cart[a][1].product.id
                    /\ ~project_credits[a][j].absolute_limit
                    /\ project_credits[a][j].available_amount > t.avail

(***************************************************************************)
(* C7  Draw logic.  Every charge is min(working balance, amount still      *)
(* uncovered), the charges of one pass follow the ranked order, and every  *)
(* charged source of a pass except the last is left at zero.               *)
(***************************************************************************)
DrawsAreMin(a) ==
    \A k \in DOMAIN transactions[a] :
        LET t == transactions[a][k]
        IN  t.amount = Min(t.avail, t.uncovered)

PassInRankedOrder(a, n, pass) ==
    \A k1, k2 \in PassCharges(a, n, pass) :
        k1 < k2 =>
            /\ transactions[a][k1].src < transactions[a][k2].src
            /\ Source(a, transactions[a][k1]).available_amount = 0

LastCharge(a, n, pass) ==
    transactions[a][CHOOSE k \in PassCharges(a, n, pass) :
                        \A k2 \in PassCharges(a, n, pass) : k2 <= k]

\* The claim as written: the last charge of every pass equals the need
\* remaining when it is made.
DrawLogicEveryPass ==
    \A a \in Attempts :
        /\ DrawsAreMin(a)
        /\ \A n \in DOMAIN cart[a] : \A pass \in {1, 2} :
             /\ PassInRankedOrder(a, n, pass)
             /\ PassCharges(a, n, pass) # {} =>
                  LastCharge(a, n, pass).amount = LastCharge(a, n, pass).uncovered

\* As amended: the last charge equals the remaining need in the pass that
\* completes the line; a pass that leaves a shortfall has left every source
\* it charged at zero.
PassCompletes(a, n, pass) ==
    /\ PassCharges(a, n, pass) # {}
    /\ SumOnLine(transactions[a], a, n) = AmountNeeded(cart[a][n])
    /\ \A k \in LineCharges(a, n) : \E k2 \in PassCharges(a, n, pass) : k <= k2

DrawLogic ==
    \A a \in Attempts :
        /\ DrawsAreMin(a)
        /\ \A n \in DOMAIN cart[a] : \A pass \in {1, 2} :
             /\ PassInRankedOrder(a, n, pass)
             /\ PassCharges(a, n, pass) # {} =>
                  IF PassCompletes(a, n, pass)
                  THEN LastCharge(a, n, pass).amount
                         = LastCharge(a, n, pass).uncovered
                  ELSE \A k \in PassCharges(a, n, pass) :
                         Source(a, transactions[a][k]).available_amount = 0

\* Two sources charged in one pass: the first emptied, the second charged
\* the remaining need and left with a balance.
DrawLogicWitness ==
    \E a \in Attempts : \E k \in DOMAIN transactions[a] :
        /\ k + 1 \in DOMAIN transactions[a]
        /\ LET t1 == transactions[a][k]
               t2 == transactions[a][k + 1]
           IN  /\ t1.line = t2.line
               /\ Source(a, t1).product_id = Source(a, t2).product_id
               /\ t1.amount = t1.avail
               /\ t2.amount = t2.uncovered
               /\ t2.amount < t2.avail

(***************************************************************************)
(* C8  Scoped before unscoped: a line is charged to an unscoped source     *)
(* only when every source scoped to the line's product is at zero; a line  *)
(* whose product has no scoped source is charged to unscoped sources only. *)
(***************************************************************************)
ScopedBeforeUnscoped ==
    \A a \in Attempts : \A k \in DOMAIN transactions[a] :
        LET t == transactions[a][k]
            product == cart[a][t.line].product.id
            scoped == {i \in DOMAIN project_credits[a] :
                          project_credits[a][i].product_id = product}
        IN  /\ Source(a, t).product_id = NoProduct =>
                \A i \in scoped : project_credits[a][i].available_amount = 0
            /\ scoped = {} => Source(a, t).product_id = NoProduct

\* A line drained its scoped source and took the rest from an unscoped one.
ScopedBeforeUnscopedWitness ==
    \E a \in Attempts : \E k1, k2 \in DOMAIN transactions[a] :
        /\ k1 < k2
        /\ transactions[a][k1].line = transactions[a][k2].line
        /\ Source(a, transactions[a][k1]).product_id # NoProduct
        /\ Source(a, transactions[a][k2]).product_id = NoProduct

(***************************************************************************)
(* C9  Scope isolation: a source scoped to a product is charged only for   *)
(* lines of that product, so its working balance is its resolved amount    *)
(* minus the charges of that product's lines.                              *)
(***************************************************************************)
RECURSIVE DrawnForProduct(_, _, _, _)
DrawnForProduct(a, i, product, k) ==
    IF k = 0 THEN 0
    ELSE DrawnForProduct(a, i, product, k - 1)
         + (IF /\ transactions[a][k].src = i
               /\ cart[a][transactions[a][k].line].product.id = product
            THEN transactions[a][k].amount ELSE 0)

ScopeIsolation ==
    \A a \in Attempts :
        /\ \A k \in DOMAIN transactions[a] :
             LET t == transactions[a][k]
             IN  Source(a, t).product_id # NoProduct =>
                     Source(a, t).product_id = cart[a][t.line].product.id
        /\ \A i \in DOMAIN project_credits[a] :
             LET src == project_credits[a][i]
             IN  src.product_id # NoProduct =>
                     src.available_amount =
                         AmountIn(granted, src.project_id)
                         - DrawnForProduct(a, i, src.product_id,
                                           Len(transactions[a]))

\* Two lines of different products, each charged to a source scoped to it.
ScopeIsolationWitness ==
    \E a \in Attempts : \E k1, k2 \in DOMAIN transactions[a] :
        /\ transactions[a][k1].line # transactions[a][k2].line
        /\ Source(a, transactions[a][k1]).product_id # NoProduct
        /\ Source(a, transactions[a][k2]).product_id # NoProduct
        /\ Source(a, transactions[a][k1]).product_id
             # Source(a, transactions[a][k2]).product_id

(***************************************************************************)
(* C10  Every transaction an attempt emits, and every transaction that is  *)
(* committed, has an amount > 0 and was drawn from a source with a working *)
(* balance > 0.                                                            *)
(***************************************************************************)
PositiveAmounts ==
    /\ \A a \in Attempts : \A k \in DOMAIN transactions[a] :
         /\ transactions[a][k].amount > 0
         /\ transactions[a][k].avail > 0
    /\ \A k \in DOMAIN db.txns : db.txns[k].amount > 0

\* A source emptied by the first line was passed over by the second line,
\* which was charged to a source ranked after it.
PositiveAmountsWitness ==
    \E a \in Attempts : \E k \in DOMAIN transactions[a] :
        LET t == transactions[a][k]
        IN  /\ t.line = 2
            /\ \E i \in 1..(t.src - 1) :
                 /\ project_credits[a][i].product_id = Source(a, t).product_id
                 /\ project_credits[a][i].available_amount = 0
                 /\ \E k1 \in DOMAIN transactions[a] :
                      /\ transactions[a][k1].line = 1
                      /\ transactions[a][k1].src = i

(***************************************************************************)
(* C11  Per-product cap: the total an attempt draws from a product-scoped  *)
(* source never exceeds the amount of the product limit the source was     *)
(* resolved from.                                                          *)
(***************************************************************************)
PerProductCap ==
    \A a \in Attempts : \A i \in DOMAIN project_credits[a] :
        LET src == project_credits[a][i]
        IN  src.product_id # NoProduct =>
                \A l \in limits :
                    (l.project_id = src.project_id /\ l.product_id = src.product_id)
                        => Drawn(a, i, Len(transactions[a])) <= l.amount

(***************************************************************************)
(* C12  Resolver completeness: the list get_user_project_credits returns   *)
(* holds, for every project in which the user has a credit row, the        *)
(* unscoped source of the project and, for every limit of the project on a *)
(* product of the cart, one source scoped to that product.                 *)
(***************************************************************************)
ResolverCompleteness ==
    \A a \in Attempts :
        pc[a] = "resolved" =>
            \A c \in {r \in credits : r.user_id = UserId} :
                /\ \E i \in DOMAIN project_credits[a] :
                     /\ project_credits[a][i].project_id = c.project_id
                     /\ project_credits[a][i].product_id = NoProduct
                /\ \A l \in limits :
                     (l.project_id = c.project_id
                        /\ l.product_id \in ProductIds(cart[a])) =>
                         Cardinality({i \in DOMAIN project_credits[a] :
                             /\ project_credits[a][i].project_id = l.project_id
                             /\ project_credits[a][i].product_id = l.product_id}) = 1

(***************************************************************************)
(* C13  Insufficient credit is a typed error: an attempt whose credit      *)
(* cannot cover a line is answered 400 with the detail "Insufficient       *)
(* credit available for purchase", and no order of it is persisted.        *)
(***************************************************************************)
InsufficientCreditIs400 ==
    \A a \in Attempts :
        pc[a] = "insufficient_credit" =>
            /\ response[a].status_code = 400
            /\ response[a].detail = "Insufficient credit available for purchase"
            /\ \A i \in DOMAIN db.orders : db.orders[i].id # a

(***************************************************************************)
(* Checkout against any catalogue: the products may be inactive and the    *)
(* price the request carries for a product may differ from the price of    *)
(* the product's row.                                                      *)
(***************************************************************************)
PayloadPrices == {CataloguePrice[p] : p \in Products}

PayloadLines ==
    {[product |-> [id |-> p, price |-> price], quantity |-> q]
        : p \in Products, price \in PayloadPrices, q \in 1..MaxQty}

PayloadCarts == {c \in SeqsUpTo(PayloadLines, 1) : Len(c) = 1}

Catalogues == [Products -> [price : PayloadPrices, is_active : BOOLEAN]]

InitCatalogue == InitWith({{}}, {Superuser}, Catalogues)

NextCatalogue == Step(1, PayloadCarts)

SpecCatalogue == InitCatalogue /\ [][NextCatalogue]_vars

(***************************************************************************)
(* C14  ProductUnavailable: an attempt whose cart names a product that is  *)
(* inactive in the catalogue fails with ProductUnavailable before any      *)
(* allocation: it has read no credit source, created no order row and      *)
(* emitted no transaction.                                                 *)
(***************************************************************************)
ProductUnavailable ==
    \A a \in Attempts :
        (/\ pc[a] \notin {"idle", "logged", "storage_failure"}
         /\ \E n \in DOMAIN cart[a] : ~catalogue[cart[a][n].product.id].is_active)
            => /\ pc[a] = "product_unavailable"
               /\ project_credits[a] = <<>>
               /\ db_order[a] = NoOrder
               /\ transactions[a] = <<>>
               /\ \A i \in DOMAIN db.orders : db.orders[i].id # a

(***************************************************************************)
(* C15  Unit price comes from the catalogue: the unit price of every order *)
(* line, and the amount charged for the line, is the price of the          *)
(* product's catalogue row, whatever price the request carries.            *)
(***************************************************************************)
CataloguePricing ==
    \A a \in Attempts : \A i \in DOMAIN order_lines[a] :
        LET l == order_lines[a][i]
        IN  /\ l.unit_price_incl_tax = catalogue[l.product_id].price
            /\ l.line_price_incl_tax = catalogue[l.product_id].price * l.quantity
            /\ SumOnLine(transactions[a], a, l.n)
                 = catalogue[l.product_id].price * l.quantity

(***************************************************************************)
(* C16  Every persisted transaction identifies what paid it: its credit_id *)
(* is the id of a credit row of the ordering user, in the project the      *)
(* amount was drawn from, and its order_id is the id of a persisted order. *)
(***************************************************************************)
TransactionReferences ==
    \A k \in DOMAIN db.txns :
        LET t == db.txns[k]
        IN  /\ \E c \in credits :
                 /\ c.id = t.credit_id
                 /\ c.user_id = UserId
                 /\ c.project_id = project_credits[t.order_id][t.src].project_id
            /\ \E i \in DOMAIN db.orders : db.orders[i].id = t.order_id

(***************************************************************************)
(* Authentication and permissions: api/auth/utils.py,                      *)
(* api/auth/dependencies.py, api/auth/permissions.py                       *)
(***************************************************************************)
\* request.state.user before get_current_active_user has set it.
NoUser == [id |-> 0]

MissingToken == [status_code |-> 401, detail |-> "Not authenticated"]
NotAuthenticated == [status_code |-> 401, detail |-> "User not authenticated"]
InactiveUser == [status_code |-> 400, detail |-> "Inactive User"]
PermissionDenied == [status_code |-> 403, detail |-> "Permission denied"]
OrderNotFound == [status_code |-> 404, detail |-> "Order not found"]

PermissionSet ==
    {<<"CREATE", "order">>, <<"READ", "order">>, <<"UPDATE", "order">>,
     <<"READ", "product">>}

Groups ==
    {[is_active |-> act, permissions |-> ps]
        : act \in BOOLEAN, ps \in {{}} \cup {{p} : p \in PermissionSet}}

Users ==
    {[id |-> UserId, is_active |-> act, is_superuser |-> su, groups |-> gs]
        : act \in BOOLEAN, su \in BOOLEAN,
          gs \in {G \in SUBSET Groups : Cardinality(G) <= 2}}

\* What a request carries as credentials: no Authorization header, a token
\* that does not decode to a stored user, or the token of a stored user.
CredentialSet ==
    {[kind |-> k, user |-> NoUser] : k \in {"none", "invalid"}}
        \cup {[kind |-> "token", user |-> u] : u \in Users}

\* Variant: the groups' is_active flag is not looked at.
has_permission_in_any_group(u, action, object_name) ==
    IF u = NoUser THEN FALSE
    ELSE IF u.is_superuser THEN TRUE
    ELSE \E group \in u.groups : <<action, object_name>> \in group.permissions

\* BasePermissionDependency.has_permission
has_permission(u, action, object_name) ==
    IF u = NoUser THEN FALSE
    ELSE IF u.is_superuser THEN TRUE
    ELSE \E group \in u.groups :
            group.is_active /\ <<action, object_name>> \in group.permissions

\* The OrderPermissions dependency each route of the order router declares.
OrderPermissions ==
    [read_orders |-> "READ", read_order |-> "READ",
     add_order |-> "CREATE", edit_order |-> "UPDATE"]

Endpoints == DOMAIN OrderPermissions

\* oauth2_scheme, get_current_user and get_current_active_user: the request
\* is answered 401 or 400, or request.state.user is set.
Authenticate(a) ==
    /\ pc[a] = "arrived"
    /\ UNCHANGED tx
    /\ LET credentials == request[a].credentials
       IN  IF credentials.kind = "token" /\ credentials.user.is_active
           THEN /\ user' = credentials.user
                /\ pc' = [pc EXCEPT ![a] = "authenticated"]
                /\ UNCHANGED response
           ELSE /\ response' = [response EXCEPT ![a] =
                        IF credentials.kind = "none" THEN MissingToken
                        ELSE IF credentials.kind = "invalid" THEN NotAuthenticated
                        ELSE InactiveUser]
                /\ pc' = [pc EXCEPT ![a] = "rejected"]
                /\ UNCHANGED user
    /\ UNCHANGED <<manager, handler, export>>
    /\ UNCHANGED <<credits, limits, db, cart, project_credits, session, db_order,
                   order_lines, transactions, line_no, granted, catalogue, request, reread>>

\* BasePermissionDependency.__call__ of the route's dependency; a request
\* that passes goes on to the route's handler.
Authorize(a) ==
    /\ pc[a] = "authenticated"
    /\ UNCHANGED tx
    /\ LET action == OrderPermissions[request[a].endpoint]
       IN  IF user = NoUser
           THEN /\ response' = [response EXCEPT ![a] = NotAuthenticated]
                /\ pc' = [pc EXCEPT ![a] = "rejected"]
           ELSE IF ~has_permission(user, action, "order")
           THEN /\ response' = [response EXCEPT ![a] = PermissionDenied]
                /\ pc' = [pc EXCEPT ![a] = "rejected"]
           ELSE /\ pc' = [pc EXCEPT ![a] =
                        IF request[a].endpoint = "add_order" THEN "idle"
                        ELSE "permitted"]
                /\ UNCHANGED response
    /\ UNCHANGED <<manager, handler, export>>
    /\ UNCHANGED <<credits, limits, db, cart, project_credits, session, db_order,
                   order_lines, transactions, line_no, granted, user, catalogue,
                   request, reread>>

(***************************************************************************)
(* The other routes of the order router: read_orders, read_order,          *)
(* edit_order, and CRUDOrder.get / CRUDOrder.update                        *)
(***************************************************************************)
OrderStatus ==
    {"INIT", "PENDING", "CONFIRMED", "PAID", "PROCESSING", "SHIPPED",
     "DELIVERED", "CANCELLED", "REFUNDED", "RETURNED"}

\* guest_email: None or an address.
NoEmail == "None"
GuestEmails == {NoEmail, "a@example.com", "b@example.com"}

\* The body of PUT /orders/{order_id}.
OrderUpdateSchema == [status : OrderStatus, guest_email : GuestEmails]

\* An order placed earlier, and an id no order has.
StoredOrderId == 3
MissingOrderId == 4

StoredOrders ==
    {[id |-> StoredOrderId, user_id |-> UserId, total_excl_tax |-> 1,
      total_incl_tax |-> 1, status |-> st, guest_email |-> e]
        : st \in OrderStatus, e \in GuestEmails}

StoredDb(o) ==
    [orders |-> <<o>>,
     lines |-> <<[order_id |-> o.id, n |-> 1, product_id |-> 1, quantity |-> 1,
                  unit_price_incl_tax |-> 1, line_price_incl_tax |-> 1]>>,
     txns |-> <<[credit_id |-> 1, order_id |-> o.id, amount |-> 1, line |-> 1,
                 src |-> 1, avail |-> 1, uncovered |-> 1]>>]

\* select(Order).where(Order.id == id), scalar_one_or_none()
OrdersWithId(id) == {i \in DOMAIN db.orders : db.orders[i].id = id}

\* Variant: the guest_email of the body is assigned whatever it is.
GuestEmailAssigned(db_order_, order) == order.guest_email

\* if order.guest_email is not None: db_order.guest_email = order.guest_email
GuestEmailAfter(db_order_, order) ==
    IF order.guest_email # NoEmail THEN order.guest_email ELSE db_order_.guest_email

\* The assignments of CRUDOrder.update.
UpdatedOrder(db_order_, order) ==
    [db_order_ EXCEPT !.guest_email = GuestEmailAfter(db_order_, order),
                      !.status = order.status]

\* read_orders: order_crud.list
ReadOrders(a) ==
    /\ pc[a] = "permitted"
    /\ request[a].endpoint = "read_orders"
    /\ tx' = [tx EXCEPT ![a] = Ended(@)]
    /\ response' = [response EXCEPT ![a] = Ok]
    /\ pc' = [pc EXCEPT ![a] = "answered"]
    /\ UNCHANGED <<manager, handler, export>>
    /\ UNCHANGED <<credits, limits, db, cart, project_credits, session, db_order,
                   order_lines, transactions, line_no, granted, user, catalogue,
                   request, reread>>

\* read_order and the first half of edit_order: order_crud.get and the test
\* for None.
GetOrder(a) ==
    /\ pc[a] = "permitted"
    /\ request[a].endpoint \in {"read_order", "edit_order"}
    /\ tx' = [tx EXCEPT ![a] = Ended(@)]
    /\ IF OrdersWithId(request[a].order_id) = {}
       THEN /\ response' = [response EXCEPT ![a] = OrderNotFound]
            /\ pc' = [pc EXCEPT ![a] = "not_found"]
            /\ UNCHANGED db_order
       ELSE /\ db_order' = [db_order EXCEPT ![a] =
                    db.orders[CHOOSE i \in OrdersWithId(request[a].order_id) : TRUE]]
            /\ IF request[a].endpoint = "read_order"
               THEN /\ response' = [response EXCEPT ![a] = Ok]
                    /\ pc' = [pc EXCEPT ![a] = "answered"]
               ELSE /\ pc' = [pc EXCEPT ![a] = "loaded"]
                    /\ UNCHANGED response
    /\ UNCHANGED <<manager, handler, export>>
    /\ UNCHANGED <<credits, limits, db, cart, project_credits, session,
                   order_lines, transactions, line_no, granted, user, catalogue,
                   request, reread>>

\* The second half of edit_order: CRUDOrder.update assigns, commits and
\* refreshes, and the order is returned.
EditUpdate(a) ==
    /\ pc[a] = "loaded"
    /\ tx' = [tx EXCEPT ![a] = Ended(Ended(@))]
    /\ LET updated == UpdatedOrder(db_order[a], request[a].body)
       IN  /\ db_order' = [db_order EXCEPT ![a] = updated]
           /\ db' = [db EXCEPT !.orders =
                  [i \in DOMAIN db.orders |->
                      IF db.orders[i].id = updated.id THEN updated
                      ELSE db.orders[i]]]
    /\ response' = [response EXCEPT ![a] = Ok]
    /\ pc' = [pc EXCEPT ![a] = "answered"]
    /\ UNCHANGED <<manager, handler, export>>
    /\ UNCHANGED <<credits, limits, cart, project_credits, session,
                   order_lines, transactions, line_no, granted, user, catalogue,
                   request, reread>>

\* The commit of CRUDOrder.update raises: edit_order answers 500 and get_db
\* rolls back.
EditFailure(a) ==
    /\ pc[a] = "loaded"
    /\ tx' = [tx EXCEPT ![a] = Ended(Ended(@))]
    /\ session' = Rollback(a)
    /\ response' = [response EXCEPT ![a] = DetailedHTTPException]
    /\ pc' = [pc EXCEPT ![a] = "update_failure"]
    /\ UNCHANGED <<manager, handler, export>>
    /\ UNCHANGED <<credits, limits, db, cart, project_credits, db_order,
                   order_lines, transactions, line_no, granted, user, catalogue,
                   request, reread>>

\* The requests the order router serves.
Requests ==
    {[credentials |-> c, endpoint |-> e, order_id |-> id, body |-> b]
        : c \in CredentialSet, e \in Endpoints,
          id \in {NoOrderId, StoredOrderId, MissingOrderId},
          b \in OrderUpdateSchema \cup {NoBody}}

RouterRequests ==
    {r \in Requests :
        /\ (r.order_id = NoOrderId) = (r.endpoint \in {"read_orders", "add_order"})
        /\ (r.body = NoBody) = (r.endpoint # "edit_order")}

\* One request to the order router, of any user, on a database that holds
\* one order.
InitApi ==
    /\ credits \in {t \in CreditTables : \A c \in t : c.amount = MaxCredit}
    /\ limits = {}
    /\ \E o \in StoredOrders : db = StoredDb(o)
    /\ pc = [a \in Attempts |-> "arrived"]
    /\ cart = [a \in Attempts |-> <<>>]
    /\ project_credits = [a \in Attempts |-> <<>>]
    /\ session = [a \in Attempts |-> EmptySession]
    /\ db_order = [a \in Attempts |-> NoOrder]
    /\ order_lines = [a \in Attempts |-> <<>>]
    /\ transactions = [a \in Attempts |-> <<>>]
    /\ line_no = [a \in Attempts |-> 0]
    /\ granted = credits
    /\ user = NoUser
    /\ catalogue = Catalogue
    /\ \E r \in RouterRequests : request = [a \in Attempts |-> r]
    /\ reread = [a \in Attempts |-> <<>>]
    /\ tx = [a \in Attempts |-> NoTx]
    /\ response = [a \in Attempts |-> NoResponse]
    /\ AtRest

NextApi ==
    \/ Authenticate(1)
    \/ Authorize(1)
    \/ ReadOrders(1)
    \/ GetOrder(1)
    \/ EditUpdate(1)
    \/ EditFailure(1)
    \/ Step(1, SingleLineCarts)

SpecApi == InitApi /\ [][NextApi]_vars

(***************************************************************************)
(* C17  Order endpoints are guarded.  A request without credentials is     *)
(* answered 401; a request of an authenticated user who is no superuser    *)
(* and has no active group holding the (action, order) permission of the   *)
(* endpoint is answered 403 "Permission denied" and no step of it reads,   *)
(* creates or updates an order; a superuser is never rejected.             *)
(***************************************************************************)
Requester(a) == request[a].credentials.user

Authenticated(a) ==
    request[a].credentials.kind = "token" /\ Requester(a).is_active

HoldsPermission(a) ==
    \E g \in Requester(a).groups :
        /\ g.is_active
        /\ <<OrderPermissions[request[a].endpoint], "order">> \in g.permissions

Unprivileged(a) ==
    Authenticated(a) /\ ~Requester(a).is_superuser /\ ~HoldsPermission(a)

StoredOrder(durable, id) ==
    durable.orders[CHOOSE i \in DOMAIN durable.orders : durable.orders[i].id = id]

UpdateFrame ==
    /\ [](\A a \in Attempts : pc[a] = "loaded" => ENABLED EditUpdate(a))
    /\ [][\A a \in Attempts :
            (pc[a] = "loaded" /\ pc'[a] = "answered") =>
                LET body == request[a].body
                    before == StoredOrder(db, request[a].order_id)
                    after == StoredOrder(db', request[a].order_id)
                IN  /\ response'[a].status_code = 200
                    /\ after.status = body.status
                    /\ after.guest_email =
                         (IF body.guest_email = NoEmail THEN before.guest_email
                          ELSE body.guest_email)
                    /\ after.id = before.id
                    /\ after.user_id = before.user_id
                    /\ after.total_incl_tax = before.total_incl_tax
                    /\ after.total_excl_tax = before.total_excl_tax
                    /\ Len(db'.orders) = Len(db.orders)
                    /\ db'.lines = db.lines
                    /\ db'.txns = db.txns]_vars

\* An update with a null guest_email set the order back to INIT and kept
\* the address the order had.
UpdateFrameWitness ==
    \E a \in Attempts :
        /\ pc[a] = "answered"
        /\ request[a].endpoint = "edit_order"
        /\ request[a].body = [status |-> "INIT", guest_email |-> NoEmail]
        /\ StoredOrder(db, request[a].order_id).status = "INIT"
        /\ StoredOrder(db, request[a].order_id).guest_email = "a@example.com"

(***************************************************************************)
(* get_user_project_credits called again inside an attempt                 *)
(***************************************************************************)
MaxRereads == 2

\* A further call with the user and the product ids of the attempt: the
\* query runs again on the durable rows and builds new ProjectCredit
\* objects; the working list of the attempt is not touched.
Reread(a) ==
    /\ pc[a] \in {"resolved", "funding"}
    /\ Len(reread[a]) < MaxRereads
    /\ UNCHANGED tx
    /\ \E ranked \in {SortedReverse(rows) :
                       rows \in Perms(JoinRows(UserId, ProductIds(cart[a])))} :
         reread' = [reread EXCEPT ![a] = Append(@, ranked)]
    /\ UNCHANGED <<manager, handler, export>>
    /\ UNCHANGED <<credits, limits, db, pc, cart, project_credits, session,
                   db_order, order_lines, transactions, line_no, granted, user,
                   catalogue, request, response>>

InitReread == InitWith({{}}, {Superuser}, {Catalogue})

NextReread == Step(1, SingleLineCarts) \/ Reread(1)

SpecReread == InitReread /\ [][NextReread]_vars

(***************************************************************************)
(* C19  Idempotent re-read: two calls of get_user_project_credits for the  *)
(* same user and product ids, with the credit and limit rows unchanged in  *)
(* between, return identical lists (same sources, same amounts, same       *)
(* order), whatever the engine did to the working list in the meantime.    *)
(***************************************************************************)
IdempotentReread ==
    \A a \in Attempts : \A i, j \in DOMAIN reread[a] : reread[a][i] = reread[a][j]

(***************************************************************************)
(* C20  Single transaction boundary: from the resolver's read to the final *)
(* commit the session ends no transaction, so the order, its lines and its *)
(* transactions are committed by the database transaction in which the     *)
(* credit sources were read.                                               *)
(***************************************************************************)
SingleTransaction ==
    \A a \in Attempts :
        /\ pc[a] \in {"resolved", "funding"} => tx[a].ended = tx[a].read_in
        /\ pc[a] = "done" =>
             /\ tx[a].read_in >= 0
             /\ tx[a].written_in = tx[a].read_in

\* An order with a funded line was committed in the transaction that
\* followed the commit of the admin log.
SingleTransactionWitness ==
    \E a \in Attempts :
        /\ pc[a] = "done"
        /\ transactions[a] # <<>>
        /\ tx[a].read_in = 1
        /\ tx[a].ended = 2

(***************************************************************************)
(* C21  Order totals: for every placed order, total_incl_tax and           *)
(* total_excl_tax both equal the sum over its lines of unit price times    *)
(* quantity, and that total equals the sum of the amounts of the           *)
(* transactions emitted for the order.                                     *)
(***************************************************************************)
\* Sum of unit price times quantity over the lines of s of an order.
RECURSIVE SumOfLines(_, _)
SumOfLines(s, order_id) ==
    IF s = <<>> THEN 0
    ELSE (IF Head(s).order_id = order_id
          THEN Head(s).unit_price_incl_tax * Head(s).quantity ELSE 0)
         + SumOfLines(Tail(s), order_id)

\* Sum of the amounts of the transactions of s emitted for an order.
RECURSIVE SumOnOrder(_, _)
SumOnOrder(s, order_id) ==
    IF s = <<>> THEN 0
    ELSE (IF Head(s).order_id = order_id THEN Head(s).amount ELSE 0)
         + SumOnOrder(Tail(s), order_id)

OrderTotals ==
    \A i \in DOMAIN db.orders :
        LET o == db.orders[i]
        IN  /\ o.total_incl_tax = SumOfLines(db.lines, o.id)
            /\ o.total_excl_tax = SumOfLines(db.lines, o.id)
            /\ o.total_incl_tax = SumOnOrder(db.txns, o.id)

\* The part of the claim about the lines alone.
OrderTotalsOfLines ==
    \A i \in DOMAIN db.orders :
        LET o == db.orders[i]
        IN  /\ o.total_incl_tax = SumOfLines(db.lines, o.id)
            /\ o.total_excl_tax = SumOfLines(db.lines, o.id)

(***************************************************************************)
(* Checkout of valid carts: every quantity is at least 1, and a credit row *)
(* can hold more than the dearest line costs.                              *)
(***************************************************************************)
ValidLines == {l \in Lines : l.quantity >= 1}

ValidCarts == SeqsUpTo(ValidLines, MaxLines)

LargerCreditTables ==
    {{[id |-> 10 + p, user_id |-> UserId, project_id |-> p, amount |-> amt[p]]
        : p \in Projects} : amt \in [Projects -> 0..(MaxCredit + 1)]}

InitValid ==
    /\ credits \in LargerCreditTables
    /\ limits \in LimitTables
    /\ db = EmptyDb
    /\ pc = [a \in Attempts |-> "idle"]
    /\ cart = [a \in Attempts |-> <<>>]
    /\ project_credits = [a \in Attempts |-> <<>>]
    /\ session = [a \in Attempts |-> EmptySession]
    /\ db_order = [a \in Attempts |-> NoOrder]
    /\ order_lines = [a \in Attempts |-> <<>>]
    /\ transactions = [a \in Attempts |-> <<>>]
    /\ line_no = [a \in Attempts |-> 0]
    /\ granted = credits
    /\ user = Superuser
    /\ catalogue = Catalogue
    /\ request = [a \in Attempts |-> AddOrderRequest(user)]
    /\ reread = [a \in Attempts |-> <<>>]
    /\ tx = [a \in Attempts |-> NoTx]
    /\ response = [a \in Attempts |-> NoResponse]
    /\ AtRest

NextValid == Step(1, ValidCarts)

SpecValid == InitValid /\ [][NextValid]_vars

(***************************************************************************)
(* C22  Carry-forward without re-ranking: the ranked list is computed once *)
(* per attempt and every cart line works on that one list.  The step of a  *)
(* line leaves the sources in their positions with their balances reduced  *)
(* by the line's draws, sees the balances the earlier lines left, and      *)
(* charges the sources of each pass in list order without passing over a   *)
(* source that still has a balance; the order stays that of the initial    *)
(* ranking, also when draws have left a source with a smaller balance than *)
(* a source after it.                                                      *)
(***************************************************************************)
\* Sum of the amounts of the transactions of s drawn from position i.
RECURSIVE DrawnFrom(_, _)
DrawnFrom(s, i) ==
    IF s = <<>> THEN 0
    ELSE (IF Head(s).src = i THEN Head(s).amount ELSE 0) + DrawnFrom(Tail(s), i)

\* The working list of attempt a with every draw put back.
Restored(a) ==
    [i \in DOMAIN project_credits[a] |->
        [project_credits[a][i] EXCEPT
            !.available_amount = @ + DrawnFrom(transactions[a], i)]]

CarryForward ==
    /\ [](\A a \in Attempts : Ranked(Restored(a)))
    /\ [][\A a \in Attempts :
            (/\ pc[a] = "funding"
             /\ line_no'[a] = line_no[a] + 1 \/ pc'[a] = "insufficient_credit") =>
                LET n == line_no[a] + 1
                    before == project_credits[a]
                    new == SubSeq(transactions'[a], Len(transactions[a]) + 1,
                                  Len(transactions'[a]))
                IN  /\ SubSeq(transactions'[a], 1, Len(transactions[a]))
                         = transactions[a]
                    /\ DOMAIN project_credits'[a] = DOMAIN before
                    /\ \A i \in DOMAIN before :
                         project_credits'[a][i] =
                             [before[i] EXCEPT
                                 !.available_amount = @ - DrawnFrom(new, i)]
                    /\ \A k \in DOMAIN new :
                         /\ new[k].line = n
                         /\ new[k].avail = before[new[k].src].available_amount
                         /\ \A j \in 1..(new[k].src - 1) :
                              before[j].product_id = before[new[k].src].product_id
                                  => \/ before[j].available_amount = 0
                                     \/ \E k0 \in 1..(k - 1) : new[k0].src = j
                    /\ \A k1, k2 \in DOMAIN new :
                         (/\ k1 < k2
                          /\ before[new[k1].src].product_id
                                 = before[new[k2].src].product_id)
                             => new[k1].src < new[k2].src]_vars

\* A later line was charged to a source that an earlier line had drawn on
\* and left, with a balance, below a source of the same kind ranked after
\* it.
CarryForwardWitness ==
    \E a \in Attempts : \E k \in DOMAIN transactions[a] :
        LET t == transactions[a][k]
        IN  /\ t.line >= 2
            /\ \E k1 \in 1..(k - 1) :
                 /\ transactions[a][k1].src = t.src
                 /\ transactions[a][k1].line < t.line
            /\ \E j \in DOMAIN project_credits[a] :
                 /\ j > t.src
                 /\ project_credits[a][j].product_id = Source(a, t).product_id
                 /\ project_credits[a][j].absolute_limit = Source(a, t).absolute_limit
                 /\ project_credits[a][j].available_amount > t.avail

(***************************************************************************)
(* C23  Determinism: two attempts started from the same persisted credit   *)
(* and limit rows with the same cart emit the same sequence of             *)
(* transactions, the same source and amount at each position, also when    *)
(* two sources tie on (absolute_limit, available_amount).                  *)
(***************************************************************************)
\* What an attempt emitted: the source and the amount at each position.
Emitted(a) ==
    [k \in DOMAIN transactions[a] |->
        [project_id |-> Source(a, transactions[a][k]).project_id,
         product_id |-> Source(a, transactions[a][k]).product_id,
         amount |-> transactions[a][k].amount]]

Determinism ==
    \A a, b \in Attempts :
        (pc[a] = "done" /\ pc[b] = "done" /\ cart[a] = cart[b])
            => Emitted(a) = Emitted(b)

\* Two sources of the rows the resolver reads for a cart have the same key.
Tie(c) ==
    \E x, y \in JoinRows(UserId, ProductIds(c)) :
        /\ x # y
        /\ x.absolute_limit = y.absolute_limit
        /\ x.available_amount = y.available_amount

\* The claim without its last clause.
DeterminismWithoutTies ==
    \A a, b \in Attempts :
        (pc[a] = "done" /\ pc[b] = "done" /\ cart[a] = cart[b] /\ ~Tie(cart[a]))
            => Emitted(a) = Emitted(b)

(***************************************************************************)
(* C24  Greedy allocation is complete: for the ranked list an attempt      *)
(* resolved and its cart, the attempt fails with InsufficientCredit only   *)
(* if no assignment of source amounts to lines covers every line within    *)
(* the scopes and the balances of the sources; whenever such an assignment *)
(* exists the allocation succeeds.                                         *)
(***************************************************************************)
\* Some assignment covers line n, of which rem is still uncovered, from the
\* sources at positions i and after, and then the lines after n from what
\* is left of all the sources.
RECURSIVE Coverable(_, _, _, _, _)
Coverable(pcs, lines, n, i, rem) ==
    IF rem <= 0
    THEN \/ n = Len(lines)
         \/ Coverable(pcs, lines, n + 1, 1, AmountNeeded(lines[n + 1]))
    ELSE IF i > Len(pcs) THEN FALSE
    ELSE LET usable == IF pcs[i].product_id \in {NoProduct, lines[n].product.id}
                       THEN Min(pcs[i].available_amount, rem) ELSE 0
         IN  \E d \in 0..usable :
                Coverable([pcs EXCEPT ![i].available_amount = @ - d],
                          lines, n, i + 1, rem - d)

Feasible(pcs, lines) ==
    lines = <<>> \/ Coverable(pcs, lines, 1, 1, AmountNeeded(lines[1]))

GreedyComplete ==
    \A a \in Attempts :
        /\ pc[a] = "insufficient_credit" => ~Feasible(Restored(a), cart[a])
        /\ (pc[a] = "funding" /\ line_no[a] = Len(cart[a]))
               => Feasible(Restored(a), cart[a])

\* An attempt failed on its second line although a scoped and an unscoped
\* source started with a balance and the first line was funded.
GreedyCompleteWitness ==
    \E a \in Attempts :
        /\ pc[a] = "insufficient_credit"
        /\ line_no[a] >= 1
        /\ transactions[a] # <<>>
        /\ \E i, j \in DOMAIN project_credits[a] :
             /\ Restored(a)[i].product_id # NoProduct
             /\ Restored(a)[i].available_amount > 0
             /\ Restored(a)[j].product_id = NoProduct
             /\ Restored(a)[j].available_amount > 0

(***************************************************************************)
(* C25  No double counting of one credit row inside an attempt: across all *)
(* lines of one order, the total drawn from the sources that derive from   *)
(* one credit row never exceeds the balance the row had at the start of    *)
(* the attempt, also when the project has limits for two or more of the    *)
(* cart's products.                                                        *)
(***************************************************************************)
\* Amount the first k transactions of attempt a drew from the sources made
\* of the credit row of a project.
RECURSIVE DrawnFromProject(_, _, _)
DrawnFromProject(a, project_id, k) ==
    IF k = 0 THEN 0
    ELSE DrawnFromProject(a, project_id, k - 1)
         + (IF Source(a, transactions[a][k]).project_id = project_id
            THEN transactions[a][k].amount ELSE 0)

NoDoubleCounting ==
    \A a \in Attempts : \A c \in granted :
        DrawnFromProject(a, c.project_id, Len(transactions[a])) <= c.amount

\* The premise of the claim: one source per project.
OneSourcePerProject ==
    \A a \in Attempts : \A i, j \in DOMAIN project_credits[a] :
        project_credits[a][i].project_id = project_credits[a][j].project_id
            => i = j

(***************************************************************************)
(* Two order-placement attempts of the user one after the other: the       *)
(* second request arrives when the first has been answered.                *)
(***************************************************************************)
Answered(a) == pc[a] \in {"done", "insufficient_credit", "storage_failure"}

NextSeq ==
    \/ Step(1, SingleLineCarts)
    \/ Answered(1) /\ Step(2, SingleLineCarts)

SpecSeq == Init /\ [][NextSeq]_vars

(***************************************************************************)
(* C26  No overspending over time: after any sequence of attempts run one  *)
(* after another, the committed transaction amounts drawn on one credit    *)
(* row add up to no more than the amount granted to the row; and once      *)
(* earlier orders have used up every credit row, a further checkout that   *)
(* needs credit fails with InsufficientCredit.                             *)
(***************************************************************************)
\* The committed orders have drawn every credit row down to nothing.
UsedUp == \A c \in granted : SumOnCredit(db.txns, c.project_id) >= c.amount

NoOverspending ==
    /\ [](\A c \in granted : SumOnCredit(db.txns, c.project_id) <= c.amount)
    /\ [][\A a \in Attempts :
            (/\ UsedUp
             /\ pc[a] = "funding"
             /\ line_no[a] < Len(cart[a])
             /\ AmountNeeded(cart[a][line_no[a] + 1]) > 0
             /\ pc'[a] # "funding" \/ line_no'[a] # line_no[a])
                => pc'[a] = "insufficient_credit"]_vars

(***************************************************************************)
(* C27  For every cart the request schema accepts and create places, each  *)
(* persisted line total and the order totals are non-negative, and every   *)
(* line with a positive price has a quantity of at least 1.                *)
(***************************************************************************)
NonNegativeTotals ==
    /\ \A i \in DOMAIN db.lines :
         /\ db.lines[i].line_price_incl_tax >= 0
         /\ db.lines[i].unit_price_incl_tax > 0 => db.lines[i].quantity >= 1
    /\ \A i \in DOMAIN db.orders :
         /\ db.orders[i].total_incl_tax >= 0
         /\ db.orders[i].total_excl_tax >= 0

(***************************************************************************)
(* The ticket websocket: api/ticket/service.py ConnectionManager and       *)
(* api/ticket/router.py add_message.  Every websocket has one add_message  *)
(* task; the tasks of one event loop interleave at their awaits.           *)
(***************************************************************************)
\* Variant: a lock its holder can take again.
Reentrant(lock, task) == lock \in {NoTask, task}

\* asyncio.Lock.acquire: returns when the lock is free and waits while it is
\* held, whoever holds it.
Acquirable(lock, task) == lock = NoTask

\* list.remove(x): the list without its first x.
RemoveFirst(list, x) ==
    LET k == CHOOSE i \in DOMAIN list :
                 list[i] = x /\ \A j \in 1..(i - 1) : list[j] # x
    IN  SubSeq(list, 1, k - 1) \o SubSeq(list, k + 1, Len(list))

\* The body of connect under the lock.
Connected(active_connections, websocket, ticket_id) ==
    [t \in DOMAIN active_connections \cup {ticket_id} |->
        (IF t \in DOMAIN active_connections THEN active_connections[t] ELSE <<>>)
            \o (IF t = ticket_id THEN <<websocket>> ELSE <<>>)]

\* list.remove(x) raises ValueError when x is not in the list.
ValueError(active_connections, websocket, ticket_id) ==
    /\ ticket_id \in DOMAIN active_connections
    /\ websocket \notin Range(active_connections[ticket_id])

\* The body of disconnect under the lock.
Disconnected(active_connections, websocket, ticket_id) ==
    IF \/ ticket_id \notin DOMAIN active_connections
       \/ ValueError(active_connections, websocket, ticket_id)
    THEN active_connections
    ELSE LET rest == RemoveFirst(active_connections[ticket_id], websocket)
         IN  IF rest = <<>>
             THEN [t \in DOMAIN active_connections \ {ticket_id} |->
                      active_connections[t]]
             ELSE [active_connections EXCEPT ![ticket_id] = rest]

OrdersAtRest ==
    /\ credits = {}
    /\ limits = {}
    /\ db = EmptyDb
    /\ pc = [a \in Attempts |-> "idle"]
    /\ cart = [a \in Attempts |-> <<>>]
    /\ project_credits = [a \in Attempts |-> <<>>]
    /\ session = [a \in Attempts |-> EmptySession]
    /\ db_order = [a \in Attempts |-> NoOrder]
    /\ order_lines = [a \in Attempts |-> <<>>]
    /\ transactions = [a \in Attempts |-> <<>>]
    /\ line_no = [a \in Attempts |-> 0]
    /\ granted = credits
    /\ user = Superuser
    /\ catalogue = Catalogue
    /\ request = [a \in Attempts |-> AddOrderRequest(user)]
    /\ reread = [a \in Attempts |-> <<>>]
    /\ tx = [a \in Attempts |-> NoTx]
    /\ response = [a \in Attempts |-> NoResponse]

order_vars ==
    <<credits, limits, db, pc, cart, project_credits, session, db_order,
      order_lines, transactions, line_no, granted, user, catalogue, request,
      reread, tx, response>>

\* A client opens the websocket of a ticket: websocket.accept().
Accept(s) ==
    /\ handler[s].pc = "idle"
    /\ \E ticket_id \in Tickets :
         handler' = [handler EXCEPT ![s].pc = "connect",
                                    ![s].ticket_id = ticket_id]
    /\ UNCHANGED <<manager, export, order_vars>>

\* manager.connect under the lock.
Connect(s) ==
    /\ handler[s].pc = "connect"
    /\ Acquirable(manager.lock, s)
    /\ manager' = [manager EXCEPT !.active_connections =
                      Connected(@, s, handler[s].ticket_id)]
    /\ handler' = [handler EXCEPT ![s].pc = "connected"]
    /\ UNCHANGED <<export, order_vars>>

\* ticket_crud.get: the ticket exists, or TicketNotFound leaves add_message.
GetTicket(s) ==
    /\ handler[s].pc = "connected"
    /\ \E found \in BOOLEAN :
         handler' = [handler EXCEPT
                        ![s].pc = IF found THEN "receive" ELSE "ended"]
    /\ UNCHANGED <<manager, export, order_vars>>

\* The peer goes away.
PeerCloses(s) ==
    /\ handler[s].pc \notin {"idle", "ended"}
    /\ handler[s].peer = "open"
    /\ handler' = [handler EXCEPT ![s].peer = "closed"]
    /\ UNCHANGED <<manager, export, order_vars>>

\* websocket.iter_json(): a message arrives and is stored, or the peer is
\* gone and the loop ends, by WebSocketDisconnect or silently.
Receive(s) ==
    /\ handler[s].pc = "receive"
    /\ IF handler[s].peer = "open"
       THEN handler' = [handler EXCEPT ![s].pc = "broadcast"]
       ELSE \E next \in {"disconnect", "ended"} :
                handler' = [handler EXCEPT ![s].pc = next]
    /\ UNCHANGED <<manager, export, order_vars>>

\* broadcast_message takes the lock and looks the ticket up.
Acquire(s) ==
    /\ handler[s].pc = "broadcast"
    /\ Acquirable(manager.lock, s)
    /\ IF handler[s].ticket_id \in DOMAIN manager.active_connections
       THEN /\ manager' = [manager EXCEPT !.lock = s]
            /\ handler' = [handler EXCEPT ![s].pc = "sending", ![s].i = 1,
                                          ![s].dead_connections = <<>>]
       ELSE /\ handler' = [handler EXCEPT ![s].pc = "receive"]
            /\ UNCHANGED manager
    /\ UNCHANGED <<export, order_vars>>

\* One iteration of the first loop: connection.send_json(message).  A send
\* to a peer that is gone goes through, raises WebSocketDisconnect, or
\* raises another exception, which leaves broadcast_message (releasing the
\* lock) and add_message.
Send(s) ==
    /\ handler[s].pc = "sending"
    /\ LET connections == manager.active_connections[handler[s].ticket_id]
           connection == connections[handler[s].i]
       IN  /\ handler[s].i <= Len(connections)
           /\ \E outcome \in IF handler[connection].peer = "open" THEN {"sent"}
                             ELSE {"sent", "WebSocketDisconnect", "RuntimeError"} :
                IF outcome = "RuntimeError"
                THEN /\ manager' = [manager EXCEPT !.lock = NoTask]
                     /\ handler' = [handler EXCEPT ![s].pc = "ended"]
                ELSE /\ handler' = [handler EXCEPT
                          ![s].i = @ + 1,
                          ![s].dead_connections =
                              IF outcome = "sent" THEN @ ELSE Append(@, connection)]
                     /\ UNCHANGED manager
    /\ UNCHANGED <<export, order_vars>>

\* The first loop is over: with no dead connection broadcast_message
\* returns and releases the lock; otherwise the second loop starts.
AfterSends(s) ==
    /\ handler[s].pc = "sending"
    /\ handler[s].i > Len(manager.active_connections[handler[s].ticket_id])
    /\ IF handler[s].dead_connections = <<>>
       THEN /\ manager' = [manager EXCEPT !.lock = NoTask]
            /\ handler' = [handler EXCEPT ![s].pc = "receive"]
       ELSE /\ handler' = [handler EXCEPT ![s].pc = "removing"]
            /\ UNCHANGED manager
    /\ UNCHANGED <<export, order_vars>>

\* manager.disconnect, called by add_message for its own websocket or by
\* the second loop of broadcast_message for a dead connection: it takes the
\* lock, removes the websocket and releases the lock; a ValueError leaves
\* disconnect, its caller and add_message.
Disconnect(s) ==
    /\ handler[s].pc \in {"disconnect", "removing"}
    /\ Acquirable(manager.lock, s)
    /\ LET websocket == IF handler[s].pc = "removing"
                        THEN Head(handler[s].dead_connections) ELSE s
           ticket_id == handler[s].ticket_id
       IN  /\ manager' = [active_connections |->
                             Disconnected(manager.active_connections, websocket,
                                          ticket_id),
                          lock |-> NoTask]
           /\ handler' = [handler EXCEPT
                 ![s].dead_connections = IF @ = <<>> THEN @ ELSE Tail(@),
                 ![s].pc =
                     IF \/ handler[s].pc = "disconnect"
                        \/ ValueError(manager.active_connections, websocket,
                                      ticket_id)
                     THEN "ended"
                     ELSE IF Len(handler[s].dead_connections) > 1 THEN "removing"
                     ELSE "receive"]
    /\ UNCHANGED <<export, order_vars>>

\* The steps of the task of websocket s.
HandlerStep(s) ==
    \/ Accept(s)
    \/ Connect(s)
    \/ GetTicket(s)
    \/ Receive(s)
    \/ Acquire(s)
    \/ Send(s)
    \/ AfterSends(s)
    \/ Disconnect(s)

InitTicket == OrdersAtRest /\ AtRest

NextTicket == \E s \in Sockets : HandlerStep(s) \/ PeerCloses(s)

\* The event loop runs every task that can run.
SpecTicket ==
    InitTicket /\ [][NextTicket]_vars /\ \A s \in Sockets : WF_vars(HandlerStep(s))

(***************************************************************************)
(* C28  broadcast_message always terminates and releases the lock, also    *)
(* when a send raises WebSocketDisconnect: the dead connection is removed  *)
(* from active_connections, the other connections stay registered, and     *)
(* the task that holds the lock can always go on, so that later connect,   *)
(* disconnect and broadcast calls get the lock.                            *)
(***************************************************************************)
Broadcasting(s) == handler[s].pc \in {"sending", "removing"}

BroadcastReleases ==
    /\ \A s \in Sockets :
         Broadcasting(s) ~> (~Broadcasting(s) /\ manager.lock # s)
    /\ [](\A s \in Sockets : manager.lock = s => ENABLED HandlerStep(s))
    /\ [][\A s \in Sockets :
            (handler[s].pc = "removing" /\ handler'[s].pc # "removing") =>
                \A t \in DOMAIN manager.active_connections :
                    \A c \in Range(manager.active_connections[t]) :
                        (t \in DOMAIN manager'.active_connections
                            /\ c \in Range(manager'.active_connections[t]))
                        <=> c \notin Range(handler[s].dead_connections)]_vars

(***************************************************************************)
(* Exports: api/export/service.py CRUDExport.create and process_export,    *)
(* api/export/constant.py Status                                           *)
(***************************************************************************)
Status == {"CREATED", "IN_PROGRESS", "COMPLETED", "FAILED"}

\* What an ExportCreateSchema can ask for: model_name and file_format are
\* free strings, and so is the operator of a filter ("" for no filter).
ModelNames == {"User", "Order", "Product", "Invoice"}
FileFormats == {"xlsx", "csv", "json"}
Operators == {"", "eq", "in_", "between", "gt", "lt", "contains", "like"}

ExportCreateSchema ==
    [model_name : ModelNames, file_format : FileFormats, operator : Operators]

\* _get_model_class raises UnSupportedModelName.
UnSupportedModelName(schema) == schema.model_name \notin {"User", "Order", "Product"}

\* _apply_filter raises UnSupportedOperator.
UnSupportedOperator(schema) ==
    schema.operator \notin {"", "eq", "in_", "between", "gt", "lt", "contains"}

\* process_export raises UnSupportedFileFormat.
UnSupportedFileFormat(schema) == schema.file_format # "xlsx"

\* Variant: the handler of the inner try commits what it has set.
FailureCommitted(row, export_obj) == export_obj

\* "raise e" leaves the inner handler before the commit of line 113; the
\* outer handler rolls the session back, and the row stays as committed.
AfterFailure(row, export_obj) == row

\* CRUDExport.create: the row is committed as CREATED and process_export is
\* scheduled; or the commit raises and there is no export.
CreateExport ==
    /\ export.pc = "none"
    /\ \E schema \in ExportCreateSchema, committed \in BOOLEAN :
         IF committed
         THEN LET db_export == [status |-> "CREATED", file |-> "",
                                started_at |-> export.now, finished_at |-> 0]
              IN  export' = [export EXCEPT !.pc = "scheduled", !.schema = schema,
                                           !.row = db_export,
                                           !.export_obj = db_export,
                                           !.now = @ + 1]
         ELSE export' = [export EXCEPT !.pc = "not_created", !.schema = schema,
                                       !.now = @ + 1]
    /\ UNCHANGED <<manager, handler, order_vars>>

\* process_export up to its first commit: the row is loaded, the model
\* class is looked up and the query built, the status is set to IN_PROGRESS
\* and committed.  Whatever raises is caught by the outer handler, which
\* rolls back.
ProcessStart ==
    /\ export.pc = "scheduled"
    /\ \E committed \in BOOLEAN :
         IF \/ UnSupportedModelName(export.schema)
            \/ UnSupportedOperator(export.schema)
            \/ ~committed
         THEN export' = [export EXCEPT !.pc = "returned",
                                       !.raised = "before IN_PROGRESS",
                                       !.export_obj = export.row]
         ELSE LET marked == [export.row EXCEPT !.status = "IN_PROGRESS"]
              IN  export' = [export EXCEPT !.pc = "in_progress",
                                           !.row = marked,
                                           !.export_obj = marked]
    /\ UNCHANGED <<manager, handler, order_vars>>

\* The inner try: _to_excel writes the file and the object is set to
\* COMPLETED; or something raises, the object is set to FAILED and the
\* exception is raised again.
ProcessWrite ==
    /\ export.pc = "in_progress"
    /\ \E written \in BOOLEAN :
         IF UnSupportedFileFormat(export.schema) \/ ~written
         THEN LET failed == [export.export_obj EXCEPT
                                !.status = "FAILED",
                                !.finished_at = export.now]
                  kept == AfterFailure(export.row, failed)
              IN  export' = [export EXCEPT !.pc = "returned",
                                           !.raised = "after IN_PROGRESS",
                                           !.row = kept,
                                           !.export_obj = kept,
                                           !.now = @ + 1]
         ELSE export' = [export EXCEPT
                            !.pc = "written",
                            !.export_obj = [@ EXCEPT !.file = "exports/file.xlsx",
                                                     !.status = "COMPLETED",
                                                     !.finished_at = export.now],
                            !.now = @ + 1]
    /\ UNCHANGED <<manager, handler, order_vars>>

\* The commit of line 113; if it raises the outer handler rolls back.
ProcessCommit ==
    /\ export.pc = "written"
    /\ \E committed \in BOOLEAN :
         IF committed
         THEN export' = [export EXCEPT !.pc = "returned", !.row = export.export_obj]
         ELSE export' = [export EXCEPT !.pc = "returned",
                                       !.raised = "after IN_PROGRESS",
                                       !.export_obj = export.row]
    /\ UNCHANGED <<manager, handler, order_vars>>

InitExport == OrdersAtRest /\ AtRest

NextExport == CreateExport \/ ProcessStart \/ ProcessWrite \/ ProcessCommit

SpecExport == InitExport /\ [][NextExport]_vars

(***************************************************************************)
(* C29  Export status lifecycle: the persisted status moves CREATED ->     *)
(* IN_PROGRESS -> COMPLETED or FAILED and never backwards; an export whose *)
(* processing raises after it was marked IN_PROGRESS ends with the         *)
(* persisted status FAILED and a finished_at time; and no export is        *)
(* IN_PROGRESS once process_export has returned.                           *)
(***************************************************************************)
Stage(status) ==
    IF status = "CREATED" THEN 1
    ELSE IF status = "IN_PROGRESS" THEN 2
    ELSE IF status \in {"COMPLETED", "FAILED"} THEN 3
    ELSE 0

\* The first clause of the claim.
ForwardOnly ==
    [][\/ export'.row.status = export.row.status
       \/ Stage(export'.row.status) = Stage(export.row.status) + 1]_vars

ExportLifecycle ==
    /\ ForwardOnly
    /\ [](export.pc = "returned" =>
            /\ export.row.status # "IN_PROGRESS"
            /\ export.raised = "after IN_PROGRESS" =>
                   /\ export.row.status = "FAILED"
                   /\ export.row.finished_at # 0)
====
